---- MODULE Spec2Model ----
(***************************************************************************)
(* Model of Python_reimplementation.py: the pipeline main() that           *)
(* translates a knowledge base into logic text, validates it, refines it   *)
(* at most once, parses it (parse_logic) and evaluates the rules over the  *)
(* parsed facts (apply_rules, split_predicates).                           *)
(*                                                                         *)
(* A Python str is a sequence of one-character strings.  A character that *)
(* cannot be written in a TLA+ string is a token: the backtick is          *)
(* Backtick, a code point above U+00FF is "U+" and its four hex digits.    *)
(***************************************************************************)
EXTENDS Integers, Sequences, FiniteSets, TLC

VARIABLES pc, calls, logic_output, errors, lines, li, current_rule,
          facts, rules, fact_dict, ri, derived_facts

vars == <<pc, calls, logic_output, errors, lines, li, current_rule,
          facts, rules, fact_dict, ri, derived_facts>>

----------------------------------------------------------------------------
(* Python str methods used by the program.                                 *)

Backtick == "BACKTICK"

\* the whitespace of str.strip() and of the regular expression's \s above
\* U+00FF: U+1680, U+2000 to U+200A, U+2028, U+2029, U+202F, U+205F, U+3000
UnicodeSpaces ==
    {"U+1680", "U+2000", "U+2001", "U+2002", "U+2003", "U+2004",
     "U+2005", "U+2006", "U+2007", "U+2008", "U+2009", "U+200A",
     "U+2028", "U+2029", "U+202F", "U+205F", "U+3000"}

\* the characters str.strip() removes and \s matches (str.isspace): space,
\* \t, \n, \r, \f, then U+000B, U+001C to U+001F, U+0085 and U+00A0 written
\* as themselves, then the Unicode spaces
Whitespace ==
    {" ", "\t", "\n", "\r", "\f", "", "", "", "", "", "", " "}
      \cup UnicodeSpaces

MinOf(S) == CHOOSE m \in S : \A n \in S : m <= n

RECURSIVE lstrip_chars(_, _)
lstrip_chars(s, cs) ==
    IF s = <<>> \/ Head(s) \notin cs THEN s ELSE lstrip_chars(Tail(s), cs)

RECURSIVE rstrip_chars(_, _)
rstrip_chars(s, cs) ==
    IF s = <<>> \/ s[Len(s)] \notin cs THEN s
    ELSE rstrip_chars(SubSeq(s, 1, Len(s) - 1), cs)

\* str.strip(chars)
strip_chars(s, cs) == rstrip_chars(lstrip_chars(s, cs), cs)

\* str.strip()
strip(s) == strip_chars(s, Whitespace)

\* str.find(sub) + 1: the first index at which sub occurs in s, 0 if none
find(s, sub) ==
    LET hits == {i \in 1..(Len(s) - Len(sub) + 1) :
                    SubSeq(s, i, i + Len(sub) - 1) = sub}
    IN  IF hits = {} THEN 0 ELSE MinOf(hits)

\* sub in s
contains(s, sub) == find(s, sub) # 0

startswith(s, sub) == Len(s) >= Len(sub) /\ SubSeq(s, 1, Len(sub)) = sub

endswith(s, sub) ==
    Len(s) >= Len(sub) /\ SubSeq(s, Len(s) - Len(sub) + 1, Len(s)) = sub

\* str.split(sep): every non-overlapping occurrence of sep, left to right
RECURSIVE split(_, _)
split(s, sep) ==
    LET i == find(s, sep)
    IN  IF i = 0 THEN <<s>>
        ELSE <<SubSeq(s, 1, i - 1)>> \o split(SubSeq(s, i + Len(sep), Len(s)), sep)

\* sep.join(parts)
RECURSIVE str_join(_, _)
str_join(parts, sep) ==
    IF parts = <<>> THEN <<>>
    ELSE IF Len(parts) = 1 THEN parts[1]
    ELSE parts[1] \o sep \o str_join(Tail(parts), sep)

\* str.replace(old, new)
replace(s, old, new) == str_join(split(s, old), new)

\* [x.strip() for x in xs]
strip_each(xs) == [k \in DOMAIN xs |-> strip(xs[k])]

----------------------------------------------------------------------------
(* split_predicates: re.split(r',\s*(?![^()]*\))', body_text), stripped.   *)

\* (?![^()]*\)) at position p: fails exactly when the first parenthesis at
\* or after p is a closing one
lookahead_closes(s, p) ==
    LET parens == {q \in p..Len(s) : s[q] \in {"(", ")"}}
    IN  parens # {} /\ s[MinOf(parens)] = ")"

\* the index after the whitespace run that starts at p
RECURSIVE skip_space(_, _)
skip_space(s, p) ==
    IF p <= Len(s) /\ s[p] \in Whitespace THEN skip_space(s, p + 1) ELSE p

\* where the separator starting at the comma at i ends (the index after it),
\* 0 if it does not match there: \s* is greedy and backtracks until the
\* negative lookahead holds
separator_end(s, i) ==
    LET ok == {p \in (i + 1)..skip_space(s, i + 1) : ~lookahead_closes(s, p)}
    IN  IF s[i] # "," \/ ok = {} THEN 0 ELSE -MinOf({-p : p \in ok})

RECURSIVE re_split(_, _)
re_split(s, from) ==
    LET seps == {i \in from..Len(s) : separator_end(s, i) # 0}
    IN  IF seps = {} THEN <<SubSeq(s, from, Len(s))>>
        ELSE LET i == MinOf(seps)
             IN  <<SubSeq(s, from, i - 1)>> \o re_split(s, separator_end(s, i))

split_predicates(body_text) == strip_each(re_split(body_text, 1))

----------------------------------------------------------------------------
(* check_logic_validity                                                    *)

MissingPeriod == "Missing period at end."
MissingParens == "Missing parentheses."

line_errors(line_num, line) ==
    LET stripped == strip(line)
    IN  (IF ~endswith(stripped, <<".">>)
           THEN <<<<line_num, MissingPeriod>>>> ELSE <<>>)
        \o
        (IF ~contains(stripped, <<"(">>) \/ ~contains(stripped, <<")">>)
           THEN <<<<line_num, MissingParens>>>> ELSE <<>>)

RECURSIVE errors_upto(_, _)
errors_upto(ls, n) ==
    IF n = 0 THEN <<>> ELSE errors_upto(ls, n - 1) \o line_errors(n, ls[n])

check_logic_validity(logic_text) ==
    LET ls == split(strip(logic_text), <<"\n">>)
    IN  errors_upto(ls, Len(ls))

----------------------------------------------------------------------------
(* parse_logic: one iteration of its loop over the lines.                  *)

RuleOp == <<":", "-">>

Fence == <<Backtick, Backtick, Backtick>>
FenceProlog == Fence \o <<"p", "r", "o", "l", "o", "g">>

\* lines 65-67: the lines the loop runs over
logic_lines(logic_text) ==
    split(strip(replace(replace(logic_text, FenceProlog, <<>>), Fence, <<>>)),
          <<"\n">>)

\* lines 80-82: a (predicate, args) pair, or a ValueError when the line does
\* not split into exactly two parts at "("
parse_fact(line) ==
    LET parts == split(strip_chars(line, {"."}), <<"(">>)
    IN  IF Len(parts) # 2 THEN [raised |-> TRUE, fact |-> <<>>]
        ELSE [raised |-> FALSE,
              fact |-> <<strip(parts[1]),
                         strip_each(split(strip_chars(parts[2], {")"}), <<",">>))>>]

\* parse_line with a bug: a pending rule does not claim the line
parse_line_no_pending(raw, f, r, cr) ==
    LET line == strip(raw)
        same == [facts |-> f, rules |-> r, current_rule |-> cr, raised |-> FALSE]
    IN  IF line = <<>> \/ startswith(line, <<"%">>) THEN same
        ELSE IF contains(line, RuleOp) THEN
            LET acc == cr \o <<" ">> \o strip(line)
            IN  IF endswith(strip(acc), <<".">>)
                THEN [same EXCEPT !.rules = Append(r, strip_chars(strip(acc), {"."})),
                                  !.current_rule = <<>>]
                ELSE [same EXCEPT !.current_rule = acc]
        ELSE IF contains(line, <<"(">>) /\ contains(line, <<")">>) THEN
            LET pf == parse_fact(line)
            IN  IF pf.raised THEN [same EXCEPT !.raised = TRUE]
                ELSE [same EXCEPT !.facts = Append(f, pf.fact)]
        ELSE same

\* lines 70-84 on one line, from the loop's state (f, r, cr)
parse_line(raw, f, r, cr) ==
    LET line == strip(raw)
        same == [facts |-> f, rules |-> r, current_rule |-> cr, raised |-> FALSE]
    IN  IF line = <<>> \/ startswith(line, <<"%">>) THEN same
        ELSE IF contains(line, RuleOp) \/ cr # <<>> THEN
            LET acc == cr \o <<" ">> \o strip(line)
            IN  IF endswith(strip(acc), <<".">>)
                THEN [same EXCEPT !.rules = Append(r, strip_chars(strip(acc), {"."})),
                                  !.current_rule = <<>>]
                ELSE [same EXCEPT !.current_rule = acc]
        ELSE IF contains(line, <<"(">>) /\ contains(line, <<")">>) THEN
            LET pf == parse_fact(line)
            IN  IF pf.raised THEN [same EXCEPT !.raised = TRUE]
                ELSE [same EXCEPT !.facts = Append(f, pf.fact)]
        ELSE same

----------------------------------------------------------------------------
(* apply_rules                                                             *)

Unknown == <<"?">>

\* dict.get(key, default)
get(d, key, default) == IF key \in DOMAIN d THEN d[key] ELSE default

\* d[key] = value
put(d, key, value) ==
    [k \in DOMAIN d \cup {key} |-> IF k = key THEN value ELSE d[k]]

\* lines 92-94: the facts grouped by predicate, in input order
RECURSIVE build_fact_dict(_, _)
build_fact_dict(fs, n) ==
    IF n = 0 THEN <<>>
    ELSE LET d == build_fact_dict(fs, n - 1)
         IN  put(d, fs[n][1], Append(get(d, fs[n][1], <<>>), fs[n][2]))

\* lines 99-101: head predicate and head arguments, or a ValueError when the
\* rule does not split in two at ":-" or the head does not split in two at "("
parse_head(rule) ==
    LET halves == split(rule, RuleOp)
        parts  == split(strip(halves[1]), <<"(">>)
    IN  IF Len(halves) # 2 \/ Len(parts) # 2
        THEN [raised |-> TRUE, head_predicate |-> <<>>, head_args |-> <<>>]
        ELSE [raised |-> FALSE,
              head_predicate |-> parts[1],
              head_args |-> strip_each(split(strip_chars(parts[2], {")"}), <<",">>))]

\* lines 103-105: the body text, one pair of enclosing parentheses removed
rule_body(rule) ==
    LET body == strip(split(rule, RuleOp)[2])
    IN  IF startswith(body, <<"(">>) /\ endswith(body, <<")">>)
        THEN SubSeq(body, 2, Len(body) - 1) ELSE body

\* lines 109-116: the body calls that parse, or a ValueError when a segment
\* with both parentheses does not split in two at "("
RECURSIVE parse_body(_, _)
parse_body(body_predicates, n) ==
    IF n = 0 THEN [raised |-> FALSE, body_preds |-> <<>>]
    ELSE LET before == parse_body(body_predicates, n - 1)
             b      == body_predicates[n]
             parts  == split(b, <<"(">>)
         IN  IF before.raised THEN before
             ELSE IF contains(b, <<"(">>) /\ contains(b, <<")">>)
             THEN IF Len(parts) # 2 THEN [before EXCEPT !.raised = TRUE]
                  ELSE [before EXCEPT !.body_preds =
                          Append(@, <<strip(parts[1]),
                                      strip_each(split(strip_chars(parts[2], {")"}),
                                                       <<",">>))>>)]
             ELSE before

\* lines 123-125: the candidate facts of every body call
fact_sets_of(body_preds, fd) ==
    [k \in DOMAIN body_preds |-> get(fd, body_preds[k][1], <<>>)]

\* line 127: itertools.product, each combination as the indices it chooses
product(fact_sets) ==
    LET n == Len(fact_sets)
        widest == IF n = 0 THEN 0
                  ELSE -MinOf({-Len(fact_sets[k]) : k \in 1..n})
    IN  {c \in [1..n -> 1..widest] : \A k \in 1..n : c[k] <= Len(fact_sets[k])}

MinLen(a, b) == IF Len(a) <= Len(b) THEN Len(a) ELSE Len(b)

\* bind_call with a bug: a bound term is bound again instead of compared
RECURSIVE bind_call_rebinding(_, _, _, _)
bind_call_rebinding(pred_vars, fact_args, j, var_bindings) ==
    IF j > MinLen(pred_vars, fact_args)
    THEN [match |-> TRUE, var_bindings |-> var_bindings]
    ELSE bind_call_rebinding(pred_vars, fact_args, j + 1,
                             put(var_bindings, pred_vars[j], fact_args[j]))

LowerCase ==
    {"a", "b", "c", "d", "e", "f", "g", "h", "i", "j", "k", "l", "m",
     "n", "o", "p", "q", "r", "s", "t", "u", "v", "w", "x", "y", "z"}

\* bind_call telling constants from variables: a term that starts with a
\* lower-case letter is a constant and must equal the value it meets
RECURSIVE bind_call_constants(_, _, _, _)
bind_call_constants(pred_vars, fact_args, j, var_bindings) ==
    IF j > MinLen(pred_vars, fact_args)
    THEN [match |-> TRUE, var_bindings |-> var_bindings]
    ELSE LET var == pred_vars[j]
             val == fact_args[j]
         IN  IF var # <<>> /\ var[1] \in LowerCase
             THEN IF var # val
                  THEN [match |-> FALSE, var_bindings |-> var_bindings]
                  ELSE bind_call_constants(pred_vars, fact_args, j + 1, var_bindings)
             ELSE IF var \in DOMAIN var_bindings
             THEN IF var_bindings[var] # val
                  THEN [match |-> FALSE, var_bindings |-> var_bindings]
                  ELSE bind_call_constants(pred_vars, fact_args, j + 1, var_bindings)
             ELSE bind_call_constants(pred_vars, fact_args, j + 1,
                                      put(var_bindings, var, val))

\* bind_call with a strict zip: a fact of another arity does not match
RECURSIVE bind_call_same_arity(_, _, _, _)
bind_call_same_arity(pred_vars, fact_args, j, var_bindings) ==
    IF Len(pred_vars) # Len(fact_args)
    THEN [match |-> FALSE, var_bindings |-> var_bindings]
    ELSE IF j > Len(pred_vars)
    THEN [match |-> TRUE, var_bindings |-> var_bindings]
    ELSE LET var == pred_vars[j]
             val == fact_args[j]
         IN  IF var \in DOMAIN var_bindings
             THEN IF var_bindings[var] # val
                  THEN [match |-> FALSE, var_bindings |-> var_bindings]
                  ELSE bind_call_same_arity(pred_vars, fact_args, j + 1, var_bindings)
             ELSE bind_call_same_arity(pred_vars, fact_args, j + 1,
                                       put(var_bindings, var, val))

\* lines 131-137: zip(pred_vars, fact_args) from position j on
RECURSIVE bind_call(_, _, _, _)
bind_call(pred_vars, fact_args, j, var_bindings) ==
    IF j > MinLen(pred_vars, fact_args)
    THEN [match |-> TRUE, var_bindings |-> var_bindings]
    ELSE LET var == pred_vars[j]
             val == fact_args[j]
         IN  IF var \in DOMAIN var_bindings
             THEN IF var_bindings[var] # val
                  THEN [match |-> FALSE, var_bindings |-> var_bindings]
                  ELSE bind_call(pred_vars, fact_args, j + 1, var_bindings)
             ELSE bind_call(pred_vars, fact_args, j + 1, put(var_bindings, var, val))

\* lines 128-139: the body calls from call k on against the chosen facts
RECURSIVE bind_combo(_, _, _, _)
bind_combo(body_preds, fact_combo, k, var_bindings) ==
    IF k > Len(body_preds) THEN [match |-> TRUE, var_bindings |-> var_bindings]
    ELSE LET r == bind_call(body_preds[k][2], fact_combo[k], 1, var_bindings)
         IN  IF ~r.match THEN r
             ELSE bind_combo(body_preds, fact_combo, k + 1, r.var_bindings)

\* line 141
instantiate(head_args, var_bindings) ==
    [j \in DOMAIN head_args |-> get(var_bindings, strip(head_args[j]), Unknown)]

\* lines 122-142: what one rule adds to derived_facts
join(head_predicate, head_args, body_preds, fd) ==
    LET fact_sets == fact_sets_of(body_preds, fd)
        chosen(c) == [k \in DOMAIN fact_sets |-> fact_sets[k][c[k]]]
    IN  {<<head_predicate,
           instantiate(head_args, bind_combo(body_preds, chosen(c), 1, <<>>).var_bindings)>> :
            c \in {x \in product(fact_sets) :
                      bind_combo(body_preds, chosen(x), 1, <<>>).match}}

\* lines 99-142: one iteration of the loop over the rules
apply_rule(rule, fd) ==
    LET head == parse_head(rule)
        body == rule_body(rule)
        body_predicates == split_predicates(body)
        parsed == parse_body(body_predicates, Len(body_predicates))
        nothing == [raised |-> FALSE, derived |-> {}]
    IN  IF head.raised THEN [nothing EXCEPT !.raised = TRUE]
        ELSE IF parsed.raised THEN [nothing EXCEPT !.raised = TRUE]
        ELSE IF Len(parsed.body_preds) = 0 THEN nothing
        ELSE [nothing EXCEPT !.derived =
                 join(head.head_predicate, head.head_args, parsed.body_preds, fd)]

----------------------------------------------------------------------------
(* The logic text the text-generation service may return: up to MaxLines   *)
(* of the lines below, joined by newlines.                                 *)

\* parent(john,mary).
FactJM ==
    <<"p", "a", "r", "e", "n", "t", "(", "j", "o", "h", "n", ",", "m", "a",
      "r", "y", ")", ".">>

\* parent(mary,susan).
FactMS ==
    <<"p", "a", "r", "e", "n", "t", "(", "m", "a", "r", "y", ",", "s", "u",
      "s", "a", "n", ")", ".">>

\* grandparent(X,Y) :- parent(X,Z), parent(Z,Y).
RuleGrandparent ==
    <<"g", "r", "a", "n", "d", "p", "a", "r", "e", "n", "t", "(", "X", ",",
      "Y", ")", " ", ":", "-", " ", "p", "a", "r", "e", "n", "t", "(", "X",
      ",", "Z", ")", ",", " ", "p", "a", "r", "e", "n", "t", "(", "Z", ",",
      "Y", ")", ".">>

\* foo
LineNoParens ==
    <<"f", "o", "o">>

\* g(X) :- parent(X,Y)
RuleNoPeriod ==
    <<"g", "(", "X", ")", " ", ":", "-", " ", "p", "a", "r", "e", "n", "t",
      "(", "X", ",", "Y", ")">>

\* h(X) :- p(a,(b,c)), q(d).
RuleNested ==
    <<"h", "(", "X", ")", " ", ":", "-", " ", "p", "(", "a", ",", "(", "b",
      ",", "c", ")", ")", ",", " ", "q", "(", "d", ")", ".">>

\* p((a).
LineTwoOpen ==
    <<"p", "(", "(", "a", ")", ".">>

\* foo :- parent(X,Y).
RuleBareHead ==
    <<"f", "o", "o", " ", ":", "-", " ", "p", "a", "r", "e", "n", "t", "(",
      "X", ",", "Y", ")", ".">>

\* r(Y) :- parent(john,Y).
RuleLiteral ==
    <<"r", "(", "Y", ")", " ", ":", "-", " ", "p", "a", "r", "e", "n", "t",
      "(", "j", "o", "h", "n", ",", "Y", ")", ".">>

\* s(X,W) :- parent(X,Y,Z),\f parent(Y).   (a form feed after the comma)
RuleArity ==
    <<"s", "(", "X", ",", "W", ")", " ", ":", "-", " ", "p", "a", "r", "e",
      "n", "t", "(", "X", ",", "Y", ",", "Z", ")", ",", "\f", " ", "p", "a",
      "r", "e", "n", "t", "(", "Y", ")", ".">>

\* % note
LineComment ==
    <<"%", " ", "n", "o", "t", "e">>

\* gg(X) :- r(X).
RuleOverDerived ==
    <<"g", "g", "(", "X", ")", " ", ":", "-", " ", "r", "(", "X", ")", ".">>

\* (three backticks)prolog
LineFence ==
    <<Backtick, Backtick, Backtick, "p", "r", "o", "l", "o", "g">>

\* a line that holds a form feed only (blank once stripped)
LineBlank ==
    <<"\f">>

Pool ==
    {FactJM,
     FactMS,
     RuleGrandparent,
     LineNoParens,
     RuleNoPeriod,
     RuleNested,
     LineTwoOpen,
     RuleBareHead,
     RuleLiteral,
     RuleArity,
     LineComment,
     RuleOverDerived,
     LineFence,
     LineBlank}

MaxLines == 3
MaxPipelineLines == 2

texts_upto(n) ==
    {str_join(ls, <<"\n">>) : ls \in UNION {[1..k -> Pool] : k \in 1..n}}

Texts == texts_upto(MaxLines)
PipelineTexts == texts_upto(MaxPipelineLines)

----------------------------------------------------------------------------
(* main                                                                    *)

Init ==
    /\ pc = "translate"
    /\ calls = <<>>
    /\ logic_output = <<>>
    /\ errors = <<>>
    /\ lines = <<>>
    /\ li = 0
    /\ current_rule = <<>>
    /\ facts = <<>>
    /\ rules = <<>>
    /\ fact_dict = <<>>
    /\ ri = 0
    /\ derived_facts = {}

\* line 157: logic_output = llm_translate(natural_language_kb)
Translate ==
    /\ pc = "translate"
    /\ \E text \in PipelineTexts : logic_output' = text
    /\ calls' = Append(calls, "llm_translate")
    /\ pc' = "check"
    /\ UNCHANGED <<errors, lines, li, current_rule, facts, rules, fact_dict, ri,
                   derived_facts>>

\* lines 160-161, 168: errors = check_logic_validity(logic_output)
Check ==
    /\ pc = "check"
    /\ errors' = check_logic_validity(logic_output)
    /\ pc' = IF errors' # <<>> THEN "refine" ELSE "parse"
    /\ UNCHANGED <<calls, logic_output, lines, li, current_rule, facts, rules,
                   fact_dict, ri, derived_facts>>

\* Refine with a bug: the refined text is validated and refined again
RefineUntilValid ==
    /\ pc = "refine"
    /\ \E text \in PipelineTexts : logic_output' = text
    /\ calls' = Append(calls, "llm_self_refine")
    /\ pc' = "check"
    /\ UNCHANGED <<errors, lines, li, current_rule, facts, rules, fact_dict, ri,
                   derived_facts>>

\* line 165: logic_output = llm_self_refine(logic_output, errors)
Refine ==
    /\ pc = "refine"
    /\ \E text \in PipelineTexts : logic_output' = text
    /\ calls' = Append(calls, "llm_self_refine")
    /\ pc' = "parse"
    /\ UNCHANGED <<errors, lines, li, current_rule, facts, rules, fact_dict, ri,
                   derived_facts>>

\* lines 62-68: parse_logic up to its loop
ParseBegin ==
    /\ pc = "parse"
    /\ lines' = logic_lines(logic_output)
    /\ li' = 1
    /\ current_rule' = <<>>
    /\ facts' = <<>>
    /\ rules' = <<>>
    /\ pc' = "parse_loop"
    /\ UNCHANGED <<calls, logic_output, errors, fact_dict, ri, derived_facts>>

\* lines 69-84: one iteration; a ValueError ends the run
ParseLine ==
    /\ pc = "parse_loop"
    /\ li <= Len(lines)
    /\ LET r == parse_line(lines[li], facts, rules, current_rule)
       IN  IF r.raised
           THEN /\ pc' = "parse_raised"
                /\ UNCHANGED <<li, current_rule, facts, rules>>
           ELSE /\ facts' = r.facts
                /\ rules' = r.rules
                /\ current_rule' = r.current_rule
                /\ li' = li + 1
                /\ pc' = pc
    /\ UNCHANGED <<calls, logic_output, errors, lines, fact_dict, ri, derived_facts>>

\* lines 86, 170, 174, 92-96: parse_logic returns, apply_rules builds its
\* fact store
ApplyBegin ==
    /\ pc = "parse_loop"
    /\ li > Len(lines)
    /\ fact_dict' = build_fact_dict(facts, Len(facts))
    /\ derived_facts' = {}
    /\ ri' = 1
    /\ pc' = "apply"
    /\ UNCHANGED <<calls, logic_output, errors, lines, li, current_rule, facts, rules>>

\* ApplyRule with fixpoint feedback: what a rule derives joins the fact store
ApplyRuleFeedback ==
    /\ pc = "apply"
    /\ ri <= Len(rules)
    /\ LET r == apply_rule(rules[ri], fact_dict)
           d == derived_facts \cup r.derived
           listed == CHOOSE q \in [1..Cardinality(d) -> d] :
                        \A a, b \in 1..Cardinality(d) : a # b => q[a] # q[b]
       IN  IF r.raised
           THEN /\ pc' = "apply_raised"
                /\ UNCHANGED <<ri, derived_facts, fact_dict>>
           ELSE /\ derived_facts' = d
                /\ fact_dict' = build_fact_dict(facts \o listed, Len(facts) + Cardinality(d))
                /\ ri' = ri + 1
                /\ pc' = pc
    /\ UNCHANGED <<calls, logic_output, errors, lines, li, current_rule, facts, rules>>

\* lines 98-142: one rule; a ValueError ends the run
ApplyRule ==
    /\ pc = "apply"
    /\ ri <= Len(rules)
    /\ LET r == apply_rule(rules[ri], fact_dict)
       IN  IF r.raised
           THEN /\ pc' = "apply_raised"
                /\ UNCHANGED <<ri, derived_facts>>
           ELSE /\ derived_facts' = derived_facts \cup r.derived
                /\ ri' = ri + 1
                /\ pc' = pc
    /\ UNCHANGED <<calls, logic_output, errors, lines, li, current_rule, facts, rules,
                   fact_dict>>

\* line 144: return derived_facts
ApplyReturn ==
    /\ pc = "apply"
    /\ ri > Len(rules)
    /\ pc' = "done"
    /\ UNCHANGED <<calls, logic_output, errors, lines, li, current_rule, facts, rules,
                   fact_dict, ri, derived_facts>>

Next ==
    \/ Translate
    \/ Check
    \/ Refine
    \/ ParseBegin
    \/ ParseLine
    \/ ApplyBegin
    \/ ApplyRule
    \/ ApplyReturn

Spec == Init /\ [][Next]_vars

(* parse_logic followed by apply_rules on any logic text.                  *)

EvalInit ==
    /\ pc = "parse"
    /\ calls = <<>>
    /\ logic_output \in Texts
    /\ errors = <<>>
    /\ lines = <<>>
    /\ li = 0
    /\ current_rule = <<>>
    /\ facts = <<>>
    /\ rules = <<>>
    /\ fact_dict = <<>>
    /\ ri = 0
    /\ derived_facts = {}

EvalNext ==
    \/ ParseBegin
    \/ ParseLine
    \/ ApplyBegin
    \/ ApplyRule
    \/ ApplyReturn

EvalSpec == EvalInit /\ [][EvalNext]_vars

----------------------------------------------------------------------------
(* parse_logic as a whole: the loop of ParseLine run over every line.      *)

RECURSIVE parse_upto(_, _)
parse_upto(ls, n) ==
    IF n = 0
    THEN [facts |-> <<>>, rules |-> <<>>, current_rule |-> <<>>, raised |-> FALSE]
    ELSE LET before == parse_upto(ls, n - 1)
         IN  IF before.raised THEN before
             ELSE parse_line(ls[n], before.facts, before.rules, before.current_rule)

parse_logic(logic_text) ==
    LET ls == logic_lines(logic_text) IN parse_upto(ls, Len(ls))

----------------------------------------------------------------------------
(* Vocabulary of the properties.                                           *)

John == <<"j", "o", "h", "n">>
Mary == <<"m", "a", "r", "y">>
Susan == <<"s", "u", "s", "a", "n">>
NameGrandparent == <<"g", "r", "a", "n", "d", "p", "a", "r", "e", "n", "t">>
NameR == <<"r">>
NameS == <<"s">>

count(s, c) == Cardinality({i \in 1..Len(s) : s[i] = c})

\* name(arg, ..., arg) with a non-empty name and no nested parentheses
IsCall(s) ==
    /\ count(s, "(") = 1
    /\ count(s, ")") = 1
    /\ s[Len(s)] = ")"
    /\ strip(SubSeq(s, 1, find(s, <<"(">>) - 1)) # <<>>

\* parenthesis depth in front of position i
depth(s, i) ==
    Cardinality({q \in 1..(i - 1) : s[q] = "("})
      - Cardinality({q \in 1..(i - 1) : s[q] = ")"})

RECURSIVE cut_at(_, _, _)
cut_at(s, from, cuts) ==
    LET later == {i \in cuts : i >= from}
    IN  IF later = {} THEN <<SubSeq(s, from, Len(s))>>
        ELSE <<SubSeq(s, from, MinOf(later) - 1)>> \o cut_at(s, MinOf(later) + 1, cuts)

\* the trimmed segments between the commas at parenthesis depth zero
DepthZeroSplit(s) ==
    strip_each(cut_at(s, 1, {i \in 1..Len(s) : s[i] = "," /\ depth(s, i) = 0}))

\* a fact statement: call, terminator
IsFactStatement(raw) ==
    LET line == strip(raw)
    IN  /\ endswith(line, <<".">>)
        /\ ~contains(line, RuleOp)
        /\ IsCall(SubSeq(line, 1, Len(line) - 1))

\* a rule statement: call, rule operator, calls separated by commas, terminator
IsRuleStatement(raw) ==
    LET line   == strip(raw)
        halves == split(SubSeq(line, 1, Len(line) - 1), RuleOp)
        calls_ == DepthZeroSplit(halves[2])
    IN  /\ endswith(line, <<".">>)
        /\ Len(halves) = 2
        /\ IsCall(strip(halves[1]))
        /\ \A k \in DOMAIN calls_ : IsCall(calls_[k])

IsIgnored(raw) ==
    LET line == strip(raw)
    IN  line = <<>> \/ startswith(line, <<"%">>) \/ startswith(line, Fence)

IsStatement(raw) == IsFactStatement(raw) \/ IsRuleStatement(raw)

IsMalformed(raw) == ~IsIgnored(raw) /\ ~IsStatement(raw)

\* the input text as the lines it was written in
InputLines == split(logic_output, <<"\n">>)

without(ls, i) == SubSeq(ls, 1, i - 1) \o SubSeq(ls, i + 1, Len(ls))

\* apply_rules has processed rule k without raising
Processed(k) == pc \in {"apply", "done", "apply_raised"} /\ k \in 1..(ri - 1)

\* the step of ApplyRule that processes rules[ri] and goes on
RuleStep == pc = "apply" /\ ri <= Len(rules) /\ ri' = ri + 1


\* the body calls of a rule, as apply_rules reads them
body_segments(rule) == split_predicates(rule_body(rule))
body_calls(rule) == parse_body(body_segments(rule), Len(body_segments(rule)))

\* head and every body segment of the rule parse
ParsesCleanly(rule) ==
    /\ ~parse_head(rule).raised
    /\ ~body_calls(rule).raised
    /\ Len(body_calls(rule).body_preds) = Len(body_segments(rule))

\* the argument tuples of the parsed facts recorded under a predicate name
Recorded(name) == {facts[i][2] : i \in {j \in 1..Len(facts) : facts[j][1] = name}}

AllRecorded == {facts[i][2] : i \in 1..Len(facts)}

\* one recorded fact per body call
Combinations(bp) ==
    {c \in [1..Len(bp) -> AllRecorded] : \A k \in 1..Len(bp) : c[k] \in Recorded(bp[k][1])}

\* the positions at which a term of a body call meets a value of its fact
Paired(bp, c) ==
    UNION {{<<k, j>> : j \in 1..MinLen(bp[k][2], c[k])} : k \in 1..Len(bp)}

term_at(bp, p) == bp[p[1]][2][p[2]]
value_at(c, p) == c[p[1]][p[2]]

\* every term that occurs at several positions meets the same value at each
Consistent(bp, c) ==
    \A p, q \in Paired(bp, c) :
        term_at(bp, p) = term_at(bp, q) => value_at(c, p) = value_at(c, q)

\* no term occurs at two positions
NoRepeatedTerm(bp, c) ==
    \A p, q \in Paired(bp, c) : term_at(bp, p) = term_at(bp, q) => p = q

\* the value a head parameter takes: the value its term meets, else "?"
head_value(bp, c, param) ==
    LET at == {p \in Paired(bp, c) : term_at(bp, p) = param}
    IN  IF at = {} THEN Unknown ELSE value_at(c, CHOOSE p \in at : TRUE)

head_instance(rule, c) ==
    LET h  == parse_head(rule)
        bp == body_calls(rule).body_preds
    IN  <<h.head_predicate,
          [j \in DOMAIN h.head_args |-> head_value(bp, c, h.head_args[j])]>>

ArityDiffers(bp, c) == \E k \in 1..Len(bp) : Len(bp[k][2]) # Len(c[k])

----------------------------------------------------------------------------
(* Properties.                                                             *)

\* C1: when apply_rules processes a rule whose head and body calls parse, it
\* adds to derived_facts exactly the head instances of the combinations (one
\* recorded fact per body call, under that call's name) in which every term
\* met at several positions meets the same value; and the two parent facts
\* with the grandparent rule give exactly grandparent(john, susan).
JoinIsExact ==
    /\ [](pc = "done" /\ InputLines = <<FactJM, FactMS, RuleGrandparent>>
            => derived_facts = {<<NameGrandparent, <<John, Susan>>>>})
    /\ [][RuleStep /\ ParsesCleanly(rules[ri]) =>
            derived_facts' = derived_facts \cup
                {head_instance(rules[ri], c) :
                    c \in {x \in Combinations(body_calls(rules[ri]).body_preds) :
                              Consistent(body_calls(rules[ri]).body_preds, x)}}]_vars

\* a run of the grandparent example that has rejected three of the four
\* combinations and derived the fourth
JoinIsExactWitness ==
    /\ pc = "done"
    /\ InputLines = <<FactJM, FactMS, RuleGrandparent>>
    /\ Cardinality(Combinations(body_calls(rules[1]).body_preds)) = 4
    /\ derived_facts = {<<NameGrandparent, <<John, Susan>>>>}

\* C2: parse_logic never raises: every input text gets through the loop over
\* its lines, a line that is no statement being skipped.
ParseLogicNeverRaises == pc # "parse_raised"

\* C3: apply_rules never raises on the facts and rules parse_logic returned.
ApplyRulesNeverRaises == pc # "apply_raised"

\* C4: a malformed line between two statements changes nothing: what
\* parse_logic returns is the facts and rules of the text without that line.
MalformedLineIsIsolated ==
    pc = "apply" =>
        \A i \in 2..(Len(InputLines) - 1) :
            /\ IsStatement(InputLines[i - 1])
            /\ IsMalformed(InputLines[i])
            /\ IsStatement(InputLines[i + 1])
            => /\ facts = parse_logic(str_join(without(InputLines, i), <<"\n">>)).facts
               /\ rules = parse_logic(str_join(without(InputLines, i), <<"\n">>)).rules

\* C5: the segments split_predicates returns for the body of a processed rule
\* are the trimmed pieces between the commas at parenthesis depth zero.
SplitsAtDepthZeroOnly ==
    \A k \in 1..Len(rules) :
        Processed(k) /\ ~parse_head(rules[k]).raised
            => body_segments(rules[k]) = DepthZeroSplit(rule_body(rules[k]))

\* the fact store holds, under every name, the parsed facts of that name in
\* input order, and nothing else
StoreIsParsedFacts ==
    /\ DOMAIN fact_dict = {facts[i][1] : i \in 1..Len(facts)}
    /\ \A name \in DOMAIN fact_dict :
          \E pick \in [1..Len(fact_dict[name]) -> 1..Len(facts)] :
             /\ \A a, b \in DOMAIN pick : a < b => pick[a] < pick[b]
             /\ \A a \in DOMAIN pick : facts[pick[a]] = <<name, fact_dict[name][a]>>
             /\ \A i \in 1..Len(facts) :
                   facts[i][1] = name => \E a \in DOMAIN pick : pick[a] = i

\* C6: apply_rules is single-pass: the fact store is the parsed facts and no
\* rule changes it, the rules are processed one after the other, once each,
\* and a rule with a body call whose name has no parsed fact adds nothing.
SinglePass ==
    /\ [](pc \in {"apply", "done", "apply_raised"} => StoreIsParsedFacts)
    /\ [](pc = "done" => ri = Len(rules) + 1)
    /\ [][pc = "apply" =>
            /\ fact_dict' = fact_dict
            /\ facts' = facts
            /\ ri' \in {ri, ri + 1}
            /\ (ri' = ri => pc' # "apply" /\ derived_facts' = derived_facts)
            /\ (RuleStep
                  /\ (\E k \in DOMAIN body_calls(rules[ri]).body_preds :
                         Recorded(body_calls(rules[ri]).body_preds[k][1]) = {})
                  => derived_facts' = derived_facts)]_vars

\* r(mary) is derived, and the rule over r that comes after it derived nothing
SinglePassWitness ==
    /\ pc = "done"
    /\ InputLines = <<FactJM, RuleLiteral, RuleOverDerived>>
    /\ ri = 3
    /\ derived_facts = {<<NameR, <<Mary>>>>}

\* the calls to the text-generation service that main has made when it is at pc
CallsAt ==
    IF pc = "translate" THEN <<>>
    ELSE IF pc \in {"check", "refine"} \/ errors = <<>> THEN <<"llm_translate">>
    ELSE <<"llm_translate", "llm_self_refine">>

\* C7: main calls the text-generation service at most twice: the translation
\* once, first; the refinement at most once, after the validator and only
\* when it reported an error; nothing is called while parsing and evaluating.
AtMostTwoServiceCalls ==
    /\ Len(calls) <= 2
    /\ calls = CallsAt
    /\ (pc = "refine" => errors # <<>>)
    /\ (pc \in {"translate", "check"} => errors = <<>> /\ lines = <<>> /\ li = 0)
    /\ (pc \in {"translate", "check", "refine", "parse"}
          => facts = <<>> /\ rules = <<>> /\ ri = 0 /\ derived_facts = {})

\* a run that translated, refined, parsed and evaluated
AtMostTwoServiceCallsWitness ==
    /\ pc = "done"
    /\ calls = <<"llm_translate", "llm_self_refine">>
    /\ errors # <<>>
    /\ derived_facts # {}

\* C8: rule accumulation in parse_logic: a line with ":-", or any line while a
\* rule is pending, is appended to the pending rule; when that line ends with
\* the terminator exactly one rule is emitted, last in rules, and nothing is
\* pending any more; otherwise no rule is emitted. Blank and comment lines
\* change nothing, and a fact is recorded only while no rule is pending.
RuleAccumulation ==
    [][pc = "parse_loop" /\ li' = li + 1 =>
        LET line == strip(lines[li])
            ignored == line = <<>> \/ line[1] = "%"
            pending == current_rule # <<>>
        IN  /\ (ignored => UNCHANGED <<current_rule, rules, facts>>)
            /\ (~ignored /\ (pending \/ contains(line, RuleOp)) =>
                  /\ facts' = facts
                  /\ IF line[Len(line)] = "."
                     THEN /\ current_rule' = <<>>
                          /\ Len(rules') = Len(rules) + 1
                          /\ SubSeq(rules', 1, Len(rules)) = rules
                          /\ rules'[Len(rules')] =
                               strip_chars(IF pending
                                           THEN Tail(current_rule) \o <<" ">> \o line
                                           ELSE line, {"."})
                     ELSE /\ rules' = rules
                          /\ current_rule' = current_rule \o <<" ">> \o line)
            /\ (~ignored /\ ~pending /\ ~contains(line, RuleOp) =>
                  /\ rules' = rules
                  /\ current_rule' = <<>>)]_vars

\* a rule accumulated over two lines, the second a line that alone is a fact
RuleAccumulationWitness ==
    /\ pc = "parse_loop"
    /\ lines = <<RuleNoPeriod, FactJM>>
    /\ li = 3
    /\ facts = <<>>
    /\ current_rule = <<>>
    /\ rules = <<RuleNoPeriod \o <<" ">> \o SubSeq(FactJM, 1, Len(FactJM) - 1)>>

\* C9: constants are bound like variables: in a combination in which no term
\* occurs twice every term, a literal such as john included, takes the value
\* the fact has at its position, so the combination derives its head instance
\* whatever the literal is; and a combination is rejected only when a term
\* that occurs again meets another value.
ConstantsBindLikeVariables ==
    [][RuleStep /\ ParsesCleanly(rules[ri]) =>
        LET bp == body_calls(rules[ri]).body_preds
        IN  /\ \A c \in Combinations(bp) :
                  NoRepeatedTerm(bp, c) => head_instance(rules[ri], c) \in derived_facts'
            /\ \A c \in Combinations(bp) :
                  ~bind_combo(bp, c, 1, <<>>).match =>
                      \E p, q \in Paired(bp, c) :
                          /\ term_at(bp, p) = term_at(bp, q)
                          /\ value_at(c, p) # value_at(c, q)]_vars

\* parent(mary, susan) is accepted for the call parent(john, Y)
ConstantsBindLikeVariablesWitness ==
    /\ pc = "done"
    /\ InputLines = <<FactMS, RuleLiteral>>
    /\ facts[1][2][1] = Mary
    /\ body_calls(rules[1]).body_preds[1][2][1] = John
    /\ derived_facts = {<<NameR, <<Susan>>>>}

\* C10: terms and values are paired by position up to the shorter length: a
\* combination with a fact of another arity than its call derives its head
\* instance (a head parameter met at no paired position being "?") whenever
\* the paired positions are consistent; and every fact a rule adds has the
\* head's name, as many values as the head has parameters, and each value is
\* "?" or a value of a recorded fact.
PairsUpToShorterLength ==
    [][RuleStep =>
        /\ \A d \in derived_facts' \ derived_facts :
              /\ d[1] = parse_head(rules[ri]).head_predicate
              /\ Len(d[2]) = Len(parse_head(rules[ri]).head_args)
              /\ \A j \in DOMAIN d[2] :
                    \/ d[2][j] = Unknown
                    \/ \E f \in AllRecorded : \E n \in DOMAIN f : f[n] = d[2][j]
        /\ ParsesCleanly(rules[ri]) =>
              LET bp == body_calls(rules[ri]).body_preds
              IN  \A c \in Combinations(bp) :
                     ArityDiffers(bp, c) /\ Consistent(bp, c) =>
                        head_instance(rules[ri], c) \in derived_facts']_vars

\* s(john, ?) from parent(X,Y,Z), parent(Y) over facts of arity two
PairsUpToShorterLengthWitness ==
    /\ pc = "done"
    /\ InputLines = <<FactJM, FactMS, RuleArity>>
    /\ derived_facts = {<<NameS, <<John, Unknown>>>>}

====
